---- MODULE Spec2Model ----
(***************************************************************************)
(* A model of pydocuchat.py: the interactive session controller (main and  *)
(* its handlers), the document indexer (save_pdf / pdf_to_index) and the   *)
(* query adapter (query_index), over a small file system.                  *)
(*                                                                         *)
(* Text is modelled by what the code does with it:                         *)
(*   - a path is a sequence of tokens, the token "/" being the separator   *)
(*     and every other token a run of non-separator characters;            *)
(*   - a line typed at the query prompt is a sequence of characters.       *)
(***************************************************************************)
EXTENDS Integers, Sequences, FiniteSets, TLC

(* ------------------------------ bounds --------------------------------- *)

\* longest path (in tokens) typed at the custom-path prompt
MaxPathLen == 4

\* most whitespace characters before or after the word of a typed line
MaxPad == 1

\* most queries issued in one run
MaxQueries == 2

(* --------------------------- program constants ------------------------- *)

PATH_TO_PDFS == <<"pdfs">>

PATH_TO_INDEXES == <<"gpt_indexes">>

SEP == "/"

ENTER_PATH == <<"Enter the path to a PDF">>

ExitWord == <<"e", "x", "i", "t">>

ExitWord_quit == <<"q", "u", "i", "t">>

(* ------------------------------ text ----------------------------------- *)

\* characters str.strip() removes that input() can return
White == {" ", "\t"}

RECURSIVE lstrip(_)
lstrip(s) == IF s # <<>> /\ Head(s) \in White THEN lstrip(Tail(s)) ELSE s

RECURSIVE rstrip(_)
rstrip(s) ==
  IF s # <<>> /\ s[Len(s)] \in White THEN rstrip(SubSeq(s, 1, Len(s) - 1)) ELSE s

\* str.strip()
strip(s) == rstrip(lstrip(s))

\* sequences over S of length at most n
RECURSIVE SeqsUpTo(_, _)
SeqsUpTo(S, n) ==
  IF n = 0 THEN {<<>>}
  ELSE LET shorter == SeqsUpTo(S, n - 1)
       IN shorter \cup {Append(s, x) : s \in {t \in shorter : Len(t) = n - 1}, x \in S}

Words == {<<>>, ExitWord, <<"E", "x", "i", "t">>, <<"h", "i">>}

Pads == SeqsUpTo(White, MaxPad)

\* the lines the user may type at the "> " prompt: a word, padded on one side
Lines == {l \o w : l \in Pads, w \in Words} \cup {w \o r : w \in Words, r \in Pads}

(* ------------------------------ paths ---------------------------------- *)

PathTokens == {SEP, "docs", "a.pdf", "b.pdf"}

\* the paths the user may type at the custom-path prompt
Paths == SeqsUpTo(PathTokens, MaxPathLen)

\* index of the last separator of p, 0 when there is none (str.rfind + 1)
RECURSIVE rfindSep(_, _)
rfindSep(p, i) == IF i = 0 \/ p[i] = SEP THEN i ELSE rfindSep(p, i - 1)

\* str.rstrip('/')
RECURSIVE rstripSep(_)
rstripSep(p) ==
  IF p # <<>> /\ p[Len(p)] = SEP THEN rstripSep(SubSeq(p, 1, Len(p) - 1)) ELSE p

\* os.path.split (posixpath): <<head, tail>>
split_whole(p) == <<<<>>, p>>

split(p) ==
  LET i    == rfindSep(p, Len(p))
      head == SubSeq(p, 1, i)
      tail == SubSeq(p, i + 1, Len(p))
  IN <<IF head # <<>> /\ rstripSep(head) # <<>> THEN rstripSep(head) ELSE head, tail>>

\* f"{a}/{b}"
Slash(a, b) == a \o <<SEP>> \o b

\* the file a path names: repeated separators count as one
RECURSIVE Collapse(_)
Collapse(p) ==
  IF Len(p) < 2 THEN p
  ELSE IF p[1] = SEP /\ p[2] = SEP THEN Collapse(Tail(p))
  ELSE <<p[1]>> \o Collapse(Tail(p))

\* the base file name of a path: what follows its last separator
BaseName(p) ==
  CHOOSE t \in {SubSeq(p, i, Len(p)) : i \in 1..(Len(p) + 1)} :
    /\ \A j \in 1..Len(t) : t[j] # SEP
    /\ \A u \in {SubSeq(p, i, Len(p)) : i \in 1..(Len(p) + 1)} :
         (\A j \in 1..Len(u) : u[j] # SEP) => Len(u) <= Len(t)

ManagedFiles == {Slash(PATH_TO_PDFS, <<"a.pdf">>), Slash(PATH_TO_PDFS, <<"b.pdf">>)}

ExternalFiles == {<<"docs", SEP, "a.pdf">>, <<"b.pdf">>, <<SEP, "a.pdf">>}

ExternalDirs == {<<"docs">>}

(* --------------------------- state ------------------------------------- *)

VARIABLES
  pc,          \* where the controller is (see PCs)
  todo,        \* setup_directories: the directories still to be ensured
  dirs,        \* which of PATH_TO_INDEXES / PATH_TO_PDFS exist
  files,       \* the regular files of the file system (never written)
  stray,       \* names of regular files lying in the indexes root
  indexes,     \* the index directories: save path |-> contents
  pdf_name,    \* process_queries: the selected document (NoName outside)
  asked,       \* the arguments of the query_index call in flight
  call,        \* the arguments of the save_pdf call in flight
  printed,     \* what the last step printed
  event,       \* the last step: [op, arg]
  issued,      \* number of query_index calls made
  added,       \* base names of the documents whose build succeeded
  sigint,      \* the user has sent an interrupt
  failed,      \* a collaborator has raised
  exitStatus   \* -1 while the process runs, then its exit status

vars == <<pc, todo, dirs, files, stray, indexes, pdf_name, asked, call,
          printed, event, issued, added, sigint, failed, exitStatus>>

PCs == {"setup", "MainMenu", "QueryMenu", "QueryLoop", "Querying", "Streaming",
        "AddMenu", "CustomPath", "Building", "Exit", "Aborted"}

\* the positions inside the try block of main
InTry == PCs \ {"setup", "Exit", "Aborted"}

NoName == <<>>

NoQuery == [query_u |-> <<>>, pdf_name |-> NoName]

NoCall == [file_path |-> <<>>, absolute |-> FALSE, pdf_path |-> <<>>, save_path |-> <<>>]

Ev(op, arg) == [op |-> op, arg |-> arg]

MSG_SAVED == "Saved PDF index to disk"

MSG_ADDED == "Added your PDF"

MSG_NO_PDFS == "No PDFs were found"

MSG_NOT_FOUND == "Unable to find the document."

MSG_RESET == "\\033[0m"

MSG_ANSWER == "response stream"

(* --------------------------- file system ------------------------------- *)

\* p names an existing regular file
FileAt(p) == p # <<>> /\ p[Len(p)] # SEP /\ Collapse(p) \in files

\* p names an existing directory outside the program's own two
DirAt(p) == p # <<>> /\ (rstripSep(Collapse(p)) \in ExternalDirs \/ Collapse(p) = <<SEP>>)

\* os.path.isfile(doc_path)
isfile_exists(p) == FileAt(p) \/ DirAt(p)

isfile(p) == FileAt(p)

\* glob(os.path.join(PATH_TO_PDFS, "*.pdf"))
glob_pdfs == {f \in files : /\ Len(f) = Len(PATH_TO_PDFS) + 2
                            /\ SubSeq(f, 1, Len(PATH_TO_PDFS) + 1) = PATH_TO_PDFS \o <<SEP>>
                            /\ f[Len(f)] \in {"a.pdf", "b.pdf"}}

\* the part of an index save path below the indexes root, up to the next separator
RECURSIVE UpToSep(_)
UpToSep(p) == IF p = <<>> \/ Head(p) = SEP THEN <<>> ELSE <<Head(p)>> \o UpToSep(Tail(p))

EntryOf(k) == UpToSep(SubSeq(k, Len(PATH_TO_INDEXES) + 2, Len(k)))

\* os.listdir(PATH_TO_INDEXES)
listdir_indexes(store, plain) == {EntryOf(k) : k \in DOMAIN store} \cup plain

\* os.path.isdir(os.path.join(PATH_TO_INDEXES, d))
isdir_index(store, d) == \E k \in DOMAIN store : EntryOf(k) = d

get_index_directories_unfiltered(store, plain) == listdir_indexes(store, plain)

get_index_directories(store, plain) ==
  {d \in listdir_indexes(store, plain) : isdir_index(store, d)}

(* --------------------------- indexer ----------------------------------- *)

\* what index.storage_context.persist writes into the directory
IndexArtifacts == {"docstore.json", "index_store.json", "default__vector_store.json"}

IndexOf(pdf_path) == [source |-> Collapse(pdf_path), artifacts |-> IndexArtifacts]

pdf_to_index_wipe(store, pdf_path, save_path) ==
  [k \in {save_path} |-> IndexOf(pdf_path)]

\* pdf_to_index: the store after a successful build
pdf_to_index(store, pdf_path, save_path) ==
  [k \in DOMAIN store \cup {save_path} |->
     IF k = save_path THEN IndexOf(pdf_path) ELSE store[k]]

save_pdf_by_path(file_path, absolute) ==
  LET file_name == split(file_path)[2]
  IN [file_path |-> file_path, absolute |-> absolute,
      pdf_path  |-> IF absolute THEN file_path ELSE Slash(PATH_TO_PDFS, file_name),
      save_path |-> IF absolute THEN Slash(PATH_TO_INDEXES, file_path)
                    ELSE Slash(PATH_TO_INDEXES, file_name)]

\* save_pdf: the pdf_to_index call it makes
save_pdf(file_path, absolute) ==
  LET file_name == split(file_path)[2]
  IN [file_path |-> file_path, absolute |-> absolute,
      pdf_path  |-> IF absolute THEN file_path ELSE Slash(PATH_TO_PDFS, file_name),
      save_path |-> Slash(PATH_TO_INDEXES, file_name)]

(* --------------------------- controller -------------------------------- *)

\* process_queries: the two tests on a line
is_exit_quit(query) == query = ExitWord_quit

is_exit_stripped(query) == strip(query) = ExitWord

is_exit(query) == query = ExitWord

is_blank_unstripped(query) == query = <<>>

is_blank(query) == strip(query) = <<>>

\* main: where an exception raised at position p ends
main_except_swallow(exc, p) ==
  IF p \notin InTry THEN [pc |-> "Aborted", status |-> 130, printed |-> <<>>]
  ELSE IF exc = "KeyboardInterrupt" THEN [pc |-> "Exit", status |-> 0, printed |-> <<MSG_RESET>>]
  ELSE [pc |-> "MainMenu", status |-> -1, printed |-> <<>>]

main_except(exc, p) ==
  IF p \notin InTry
    THEN [pc |-> "Aborted", status |-> IF exc = "KeyboardInterrupt" THEN 130 ELSE 1,
          printed |-> <<>>]
  ELSE IF exc = "KeyboardInterrupt"
    THEN [pc |-> "Exit", status |-> 0, printed |-> <<MSG_RESET>>]
  ELSE [pc |-> "Aborted", status |-> 1, printed |-> <<>>]

\* the states before the program starts
InitStores ==
  {<<>>, [k \in {Slash(PATH_TO_INDEXES, <<"a.pdf">>)} |->
            IndexOf(Slash(PATH_TO_PDFS, <<"a.pdf">>))]}

Init ==
  /\ pc = "setup"
  /\ todo = <<PATH_TO_INDEXES, PATH_TO_PDFS>>
  /\ dirs \in SUBSET {PATH_TO_INDEXES, PATH_TO_PDFS}
  /\ files \in {ExternalFiles} \cup
               (IF PATH_TO_PDFS \in dirs THEN {ExternalFiles \cup ManagedFiles} ELSE {})
  /\ stray \in {{}} \cup (IF PATH_TO_INDEXES \in dirs THEN {{<<".DS_Store">>}} ELSE {})
  /\ indexes \in IF PATH_TO_INDEXES \in dirs THEN InitStores ELSE {<<>>}
  /\ added = {EntryOf(k) : k \in DOMAIN indexes}
  /\ pdf_name = NoName
  /\ asked = NoQuery
  /\ call = NoCall
  /\ printed = <<>>
  /\ event = Ev("start", <<>>)
  /\ issued = 0
  /\ sigint = FALSE
  /\ failed = FALSE
  /\ exitStatus = -1

\* setup_directories: one directory of the list (the last one enters the menu loop)
SetupDirectory ==
  /\ pc = "setup"
  /\ todo # <<>>
  /\ dirs' = dirs \cup {Head(todo)}
  /\ todo' = Tail(todo)
  /\ pc' = IF Tail(todo) = <<>> THEN "MainMenu" ELSE "setup"
  /\ printed' = <<>>
  /\ event' = Ev("setup", Head(todo))
  /\ UNCHANGED <<files, stray, indexes, pdf_name, asked, call, issued, added,
                 sigint, failed, exitStatus>>

\* main: "Quit"
Quit ==
  /\ pc = "MainMenu"
  /\ pc' = "Exit"
  /\ exitStatus' = 0
  /\ printed' = <<>>
  /\ event' = Ev("menu", <<"Quit">>)
  /\ UNCHANGED <<todo, dirs, files, stray, indexes, pdf_name, asked, call, issued,
                 added, sigint, failed>>

\* main: "Query a document" -> handle_document_query up to the selection prompt
QueryADocument ==
  /\ pc = "MainMenu"
  /\ LET ds == get_index_directories(indexes, stray)
     IN IF ds = {}
          THEN /\ printed' = <<MSG_NO_PDFS>>
               /\ pc' = "MainMenu"
          ELSE /\ printed' = <<>>
               /\ pc' = "QueryMenu"
  /\ event' = Ev("menu", <<"Query a document">>)
  /\ UNCHANGED <<todo, dirs, files, stray, indexes, pdf_name, asked, call, issued,
                 added, sigint, failed, exitStatus>>

\* prompt_document_selection answered with d
SelectDocument(d) ==
  /\ pc = "QueryMenu"
  /\ d \in get_index_directories(indexes, stray)
  /\ pdf_name' = d
  /\ pc' = "QueryLoop"
  /\ printed' = <<>>
  /\ event' = Ev("select", d)
  /\ UNCHANGED <<todo, dirs, files, stray, indexes, asked, call, issued, added,
                 sigint, failed, exitStatus>>

\* process_queries: one line read, up to the query_index call
ReadLine(query) ==
  /\ pc = "QueryLoop"
  /\ event' = Ev("line", query)
  /\ printed' = <<MSG_RESET>>
  /\ IF is_exit(query)
       THEN /\ pc' = "MainMenu"
            /\ pdf_name' = NoName
            /\ UNCHANGED <<asked, issued>>
     ELSE IF is_blank(query)
       THEN UNCHANGED <<pc, pdf_name, asked, issued>>
     ELSE /\ issued < MaxQueries
          /\ pc' = "Querying"
          /\ asked' = [query_u |-> query, pdf_name |-> pdf_name]
          /\ issued' = issued + 1
          /\ UNCHANGED pdf_name
  /\ UNCHANGED <<todo, dirs, files, stray, indexes, call, added, sigint, failed, exitStatus>>

\* query_index returns a response
QueryReturns ==
  /\ pc = "Querying"
  /\ Slash(PATH_TO_INDEXES, asked.pdf_name) \in DOMAIN indexes
  /\ pc' = "Streaming"
  /\ printed' = <<>>
  /\ event' = Ev("response", asked.query_u)
  /\ UNCHANGED <<todo, dirs, files, stray, indexes, pdf_name, asked, call, issued,
                 added, sigint, failed, exitStatus>>

\* print_response runs to the end of the stream
PrintResponse ==
  /\ pc = "Streaming"
  /\ pc' = "QueryLoop"
  /\ printed' = <<MSG_ANSWER>>
  /\ asked' = NoQuery
  /\ event' = Ev("answer", asked.query_u)
  /\ UNCHANGED <<todo, dirs, files, stray, indexes, pdf_name, call, issued, added,
                 sigint, failed, exitStatus>>

\* main: "Add a new document" -> prompt_document_addition
AddANewDocument ==
  /\ pc = "MainMenu"
  /\ pc' = "AddMenu"
  /\ printed' = <<>>
  /\ event' = Ev("menu", <<"Add a new document">>)
  /\ UNCHANGED <<todo, dirs, files, stray, indexes, pdf_name, asked, call, issued,
                 added, sigint, failed, exitStatus>>

\* handle_document_addition: the sentinel chosen
ChooseEnterPath ==
  /\ pc = "AddMenu"
  /\ pc' = "CustomPath"
  /\ printed' = <<>>
  /\ event' = Ev("add", ENTER_PATH)
  /\ UNCHANGED <<todo, dirs, files, stray, indexes, pdf_name, asked, call, issued,
                 added, sigint, failed, exitStatus>>

\* handle_document_addition: a listed document chosen, up to the build
ChooseManaged(doc) ==
  /\ pc = "AddMenu"
  /\ doc \in glob_pdfs
  /\ call' = save_pdf(doc, FALSE)
  /\ pc' = "Building"
  /\ printed' = <<>>
  /\ event' = Ev("add", doc)
  /\ UNCHANGED <<todo, dirs, files, stray, indexes, pdf_name, asked, issued, added,
                 sigint, failed, exitStatus>>

\* handle_custom_pdf_path: a path entered, up to the build
EnterPath(doc_path) ==
  /\ pc = "CustomPath"
  /\ event' = Ev("path", doc_path)
  /\ IF ~isfile(doc_path)
       THEN /\ printed' = <<MSG_NOT_FOUND>>
            /\ pc' = "MainMenu"
            /\ UNCHANGED call
       ELSE /\ printed' = <<>>
            /\ call' = save_pdf(doc_path, TRUE)
            /\ pc' = "Building"
  /\ UNCHANGED <<todo, dirs, files, stray, indexes, pdf_name, asked, issued, added,
                 sigint, failed, exitStatus>>

\* pdf_to_index runs to the end; the caller prints and returns to the menu
BuildSucceeds ==
  /\ pc = "Building"
  /\ FileAt(call.pdf_path)
  /\ indexes' = pdf_to_index(indexes, call.pdf_path, call.save_path)
  /\ added' = added \cup {BaseName(call.file_path)}
  /\ printed' = <<MSG_SAVED, MSG_ADDED>>
  /\ pc' = "MainMenu"
  /\ call' = NoCall
  /\ event' = Ev(IF call.save_path \in DOMAIN indexes THEN "rebuilt" ELSE "built",
                 call.file_path)
  /\ UNCHANGED <<todo, dirs, files, stray, pdf_name, asked, issued, sigint, failed,
                 exitStatus>>

\* a collaborator raises: extraction or embedding during a build, the index
\* load or the generation call during a query, the stream while it is printed
CollaboratorFails ==
  /\ pc \in {"Building", "Querying", "Streaming"}
  /\ LET r == main_except("Exception", pc)
     IN /\ pc' = r.pc
        /\ exitStatus' = r.status
        /\ printed' = r.printed
  /\ failed' = TRUE
  /\ event' = Ev("failure", <<pc>>)
  /\ UNCHANGED <<todo, dirs, files, stray, indexes, pdf_name, asked, call, issued,
                 added, sigint>>

\* the user sends an interrupt while the process runs
Interrupt ==
  /\ pc \in PCs \ {"Exit", "Aborted"}
  /\ LET r == main_except("KeyboardInterrupt", pc)
     IN /\ pc' = r.pc
        /\ exitStatus' = r.status
        /\ printed' = r.printed
  /\ sigint' = TRUE
  /\ event' = Ev("interrupt", <<pc>>)
  /\ UNCHANGED <<todo, dirs, files, stray, indexes, pdf_name, asked, call, issued,
                 added, failed>>

Next ==
  \/ SetupDirectory
  \/ Quit
  \/ QueryADocument
  \/ \E d \in get_index_directories(indexes, stray) : SelectDocument(d)
  \/ \E query \in Lines : ReadLine(query)
  \/ QueryReturns
  \/ PrintResponse
  \/ AddANewDocument
  \/ ChooseEnterPath
  \/ \E doc \in glob_pdfs : ChooseManaged(doc)
  \/ \E doc_path \in Paths : EnterPath(doc_path)
  \/ BuildSucceeds
  \/ CollaboratorFails
  \/ Interrupt

Spec == Init /\ [][Next]_vars

(* ------------------------------ claims --------------------------------- *)

\* the line consists of whitespace only (or of nothing)
WhitespaceOnly(line) == \A i \in 1..Len(line) : line[i] \in White

\* the step just taken ended a successful build
Built(e) == e.op \in {"built", "rebuilt"}

\* the index directory the documentation promises for a document path
IndexDirOf(path) == Slash(<<"gpt_indexes">>, BaseName(path))

\* C1: every successful build, in managed or in absolute mode, leaves a
\* non-empty index directory at gpt_indexes/<base name of the path>; the mode
\* decides only which file was read (pdfs/<base name> or the path itself).
C1_IndexAtBaseName ==
  [][Built(event') =>
       LET key == IndexDirOf(call.file_path)
           src == IF call.absolute THEN call.file_path
                  ELSE <<"pdfs", "/">> \o BaseName(call.file_path)
       IN /\ call.save_path = key
          /\ key \in DOMAIN indexes'
          /\ indexes'[key].artifacts # {}
          /\ indexes'[key].source = Collapse(src)
          /\ call.pdf_path = src]_vars

C1_Witness ==
  /\ Built(event)
  /\ event.arg = <<"docs", "/", "/", "a.pdf">>
  /\ <<"gpt_indexes", "/", "a.pdf">> \in DOMAIN indexes
  /\ indexes[<<"gpt_indexes", "/", "a.pdf">>].source = <<"docs", "/", "a.pdf">>

\* C2: the index directories are exactly gpt_indexes/<name> for the distinct
\* base names added; adding a document whose base name already has an index
\* leaves the set of index directories unchanged.
C2_OneIndexPerName ==
  /\ [](DOMAIN indexes = {Slash(<<"gpt_indexes">>, n) : n \in added})
  /\ [][(Built(event') /\ IndexDirOf(call.file_path) \in DOMAIN indexes)
          => DOMAIN indexes' = DOMAIN indexes]_vars

C2_Witness ==
  /\ event = Ev("rebuilt", <<"/", "a.pdf">>)
  /\ added = {<<"a.pdf">>, <<"b.pdf">>}
  /\ DOMAIN indexes = {<<"gpt_indexes", "/", "a.pdf">>, <<"gpt_indexes", "/", "b.pdf">>}
  /\ indexes[<<"gpt_indexes", "/", "a.pdf">>].source = <<"/", "a.pdf">>

\* C3: "Query a document" leads to the selection prompt only if an index
\* directory exists; with none, the message is printed, nothing is asked and
\* the controller is in MainMenu again.
C3_QueryNeedsAnIndex ==
  [][(event' = Ev("menu", <<"Query a document">>)) =>
       /\ pc' = "QueryMenu" => DOMAIN indexes # {}
       /\ DOMAIN indexes = {} =>
            /\ pc' = "MainMenu"
            /\ printed' = <<MSG_NO_PDFS>>
            /\ issued' = issued
            /\ asked' = asked
            /\ pdf_name' = pdf_name]_vars

C3_Witness ==
  /\ event = Ev("menu", <<"Query a document">>)
  /\ pc = "MainMenu"
  /\ printed = <<MSG_NO_PDFS>>
  /\ stray # {}
  /\ DOMAIN indexes = {}

\* C4: once the user has interrupted, the process is in Exit with status 0
\* and the terminal formatting reset.
C4_InterruptAlwaysExits ==
  sigint => (pc = "Exit" /\ exitStatus = 0 /\ printed = <<MSG_RESET>>)

\* C5: the line "exit" returns to MainMenu and issues no query.
C5_ExitLeavesLoop ==
  [][(event' = Ev("line", <<"e", "x", "i", "t">>)) =>
       /\ pc = "QueryLoop"
       /\ pc' = "MainMenu"
       /\ issued' = issued
       /\ asked' = asked
       /\ MSG_ANSWER \notin {printed'[i] : i \in 1..Len(printed')}]_vars

C5_Witness ==
  /\ event = Ev("line", <<"e", "x", "i", "t">>)
  /\ pc = "MainMenu"
  /\ issued = 1

\* C6: an empty or whitespace-only line issues no query, prints no answer and
\* leaves the controller in QueryLoop with the same document.
C6_BlankLineIgnored ==
  [][(event'.op = "line" /\ WhitespaceOnly(event'.arg)) =>
       /\ pc = "QueryLoop"
       /\ pc' = "QueryLoop"
       /\ pdf_name' = pdf_name
       /\ issued' = issued
       /\ asked' = asked
       /\ MSG_ANSWER \notin {printed'[i] : i \in 1..Len(printed')}]_vars

C6_Witness ==
  /\ event = Ev("line", <<"\t">>)
  /\ pc = "QueryLoop"
  /\ pdf_name = <<"b.pdf">>

\* C7: a path entered at the custom-path prompt that names no existing file
\* prints the error, writes no index and returns to MainMenu; a build in
\* absolute mode starts only for a path that names an existing file.
C7_BadPathNoWrite ==
  /\ [][(event'.op = "path") =>
          IF FileAt(event'.arg)
            THEN /\ pc' = "Building"
                 /\ call'.absolute
                 /\ call'.file_path = event'.arg
            ELSE /\ pc' = "MainMenu"
                 /\ printed' = <<MSG_NOT_FOUND>>
                 /\ indexes' = indexes
                 /\ call' = NoCall]_vars
  /\ [](call.absolute => FileAt(call.file_path))

C7_Witness ==
  /\ event = Ev("path", <<"docs", "/">>)
  /\ pc = "MainMenu"
  /\ printed = <<MSG_NOT_FOUND>>
  /\ DOMAIN indexes # {}

\* C8: a collaborator failure ends the process abnormally at once: the
\* controller takes no step after it, so nothing is caught or retried.
C8_FailureIsFatal ==
  [][/\ failed' => (pc' = "Aborted" /\ exitStatus' \notin {-1, 0})
     /\ ~failed]_vars

C8_Witness ==
  /\ failed
  /\ pc = "Aborted"
  /\ event = Ev("failure", <<"Querying">>)
  /\ issued = 1

\* C9: only a successful build changes the index store, and no step removes
\* an index directory.
C9_StoreOnlyGrows ==
  [][/\ ~Built(event') => indexes' = indexes
     /\ DOMAIN indexes \subseteq DOMAIN indexes']_vars

C9_Witness ==
  /\ event.op = "answer"
  /\ Cardinality(DOMAIN indexes) = 2
  /\ issued = 2

\* C10: a line that is neither exactly "exit" nor blank issues exactly one
\* query, with the line as typed, against the selected document; when the
\* answer has been printed the controller is in QueryLoop with that document.
C10_OrdinaryLineQueries ==
  [][/\ (/\ event'.op = "line"
         /\ event'.arg # <<"e", "x", "i", "t">>
         /\ ~WhitespaceOnly(event'.arg)) =>
          /\ pc = "QueryLoop"
          /\ pc' = "Querying"
          /\ issued' = issued + 1
          /\ asked' = [query_u |-> event'.arg, pdf_name |-> pdf_name]
          /\ pdf_name' = pdf_name
     /\ (event'.op = "response") =>
          /\ pc = "Querying" /\ pc' = "Streaming"
          /\ asked' = asked /\ pdf_name' = pdf_name /\ issued' = issued
     /\ (event'.op = "answer") =>
          /\ pc = "Streaming" /\ pc' = "QueryLoop"
          /\ printed' = <<MSG_ANSWER>>
          /\ event'.arg = asked.query_u
          /\ asked.pdf_name = pdf_name
          /\ pdf_name' = pdf_name
          /\ issued' = issued
     /\ (event'.op = "select") => (pc = "QueryMenu" /\ pdf_name' = event'.arg)]_vars

C10_Witness ==
  /\ event = Ev("answer", <<" ", "e", "x", "i", "t">>)
  /\ pc = "QueryLoop"
  /\ pdf_name = <<"a.pdf">>
  /\ issued = 1

====
